---- MODULE Spec2Model ----
(***************************************************************************)
(* Model of loadtest.js: the load-simulation engine of LoadTestPostmanTool *)
(* (simulateLoad, the per-user timer callbacks, runRequest, updateProgress *)
(* and showSummary).  One action is one run-to-completion step of the      *)
(* Node.js event loop: a timer callback or the continuation of an await.   *)
(***************************************************************************)
EXTENDS Integers, Sequences, FiniteSets, TLC

(* ---------------------------- bounds ----------------------------------- *)
MaxUsers     == 2
MaxReps      == 2
MaxTemplates == 2
MaxRequests  == 4
MaxDelay     == 1
MaxClock     == 0
MaxTotal     == 8
MaxResults   == 3
MaxRamp      == 20
MaxHeaders   == 3

(* ------------------------- input domains ------------------------------- *)
\* Names a collection entry can carry; "1" is an integer-like property key.
Names == {"ping", "1"}

\* Status codes a received response can carry (validateStatus accepts all).
StatusCodes == {200, 400, 500}

\* A collection entry: item.name, and whether item.request is present.
Templates == [name : Names, hasRequest : BOOLEAN]

Collections == UNION {[1..n -> Templates] : n \in 0..MaxTemplates}

Configs == [users : 1..MaxUsers, repetitions : 1..MaxReps,
            delayMsBetweenUsers : 0..MaxDelay]

VARIABLES
    config,             \* CONFIG handed to simulateLoad
    collection,         \* loadCollection(config.collectionPath)
    phase,              \* Idle, Running, Completed, Failed, Crashed, Exited
    totalRequests,      \* const totalRequests
    results,            \* const results = []
    completedRequests,  \* let completedRequests
    pc,                 \* per user: WaitingToStart, Executing, Done, Aborted
    slot,               \* per user: number of loop iterations finished
    startedAt,          \* per user: `start` of the request in flight
    clock,              \* Date.now(), in ms since simulateLoad was called
    reports,            \* what updateProgress has written, in order
    origin,             \* history: who produced each element of results
    dispatched,         \* history: axios calls made per user and slot
    summary,            \* what showSummary printed
    aggregations,       \* number of calls of showSummary
    readable,           \* the collection file can be read and parsed
    errorReported,      \* main's catch branch has printed an error
    exitCode,           \* exit status of the process, -1 while it runs
    probe               \* a direct call of one function: its input, output

vars == <<config, collection, phase, totalRequests, results,
          completedRequests, pc, slot, startedAt, clock, reports, origin,
          dispatched, summary, aggregations, readable, errorReported,
          exitCode, probe>>

(* --------------------------- numbers ----------------------------------- *)
\* A JavaScript number as far as this program produces them.
Num(n) == [kind |-> "num", val |-> n]
NaN    == [kind |-> "NaN", val |-> 0]
Infinity == [kind |-> "Infinity", val |-> 0]

\* Math.round(a / b * scale) for integers a >= 0, b >= 0 (round half up;
\* the double-precision quotient rounds an exact tie down only from b = 40).
RoundRatioFloor(a, b, scale) ==
    IF b = 0 THEN (IF a = 0 THEN NaN ELSE Infinity)
    ELSE Num((a * scale) \div b)
RoundRatio(a, b, scale) ==
    IF b = 0 THEN (IF a = 0 THEN NaN ELSE Infinity)
    ELSE Num((2 * a * scale + b) \div (2 * b))

(* ------------------------- simulateLoad -------------------------------- *)
Users == 0..(config.users - 1)

TotalRequestsAlt(cfg, coll) == cfg.users * cfg.repetitions
TotalRequests(cfg, coll) == cfg.users * cfg.repetitions * Len(coll)

\* Iterations of the nested for loops of one user, numbered 0..SlotsPerUser-1.
SlotsPerUser == config.repetitions * Len(collection)

\* The item the inner loop visits in iteration k.
ItemAtAlt(k) == collection[Len(collection) - (k % Len(collection))]
ItemAt(k) == collection[(k % Len(collection)) + 1]

(* -------------------------- showSummary -------------------------------- *)
\* Positions of the results named n, and the first of them.
IndicesOf(rs, n) == {i \in 1..Len(rs) : rs[i].name = n}
FirstIndex(rs, n) == CHOOSE i \in IndicesOf(rs, n) :
                        \A j \in IndicesOf(rs, n) : i <= j

\* The keys of `summary`.
SummaryKeys(rs) == {rs[i].name : i \in 1..Len(rs)}

\* The array index a property key denotes, -1 when it is not integer-like.
ArrayIndex(n) == CASE n = "1" -> 1
                   [] n = "2" -> 2
                   [] OTHER -> -1

\* Object.entries(summary) enumerates integer-like keys first, ascending,
\* then the other keys in insertion order.
EntryBefore(rs, a, b) ==
    IF ArrayIndex(a) >= 0
    THEN ArrayIndex(b) < 0 \/ ArrayIndex(a) < ArrayIndex(b)
    ELSE ArrayIndex(b) < 0 /\ FirstIndex(rs, a) < FirstIndex(rs, b)

EntryOrder(rs) ==
    [i \in 1..Cardinality(SummaryKeys(rs)) |->
        CHOOSE a \in SummaryKeys(rs) :
            Cardinality({b \in SummaryKeys(rs) : EntryBefore(rs, b, a)})
                = i - 1]

\* summary[n].times: the durations of the results named n, in arrival order.
RECURSIVE TimesOf(_, _)
TimesOf(rs, n) ==
    IF rs = <<>> THEN <<>>
    ELSE IF rs[1].name = n THEN <<rs[1].duration>> \o TimesOf(Tail(rs), n)
    ELSE TimesOf(Tail(rs), n)

\* summary[n].errors
ErrorsOfAlt(rs, n) == Cardinality({i \in IndicesOf(rs, n) : rs[i].success})
ErrorsOf(rs, n) == Cardinality({i \in IndicesOf(rs, n) : ~rs[i].success})

RECURSIVE SumSeq(_)
SumSeq(s) == IF s = <<>> THEN 0 ELSE s[1] + SumSeq(Tail(s))

MaxOf(s) == CHOOSE x \in {s[i] : i \in 1..Len(s)} :
                \A i \in 1..Len(s) : s[i] <= x
MinOf(s) == CHOOSE x \in {s[i] : i \in 1..Len(s)} :
                \A i \in 1..Len(s) : x <= s[i]

\* [...times].sort((a, b) => a - b)
RECURSIVE InsertSorted(_, _)
InsertSortedAlt(s, x) ==
    IF s = <<>> THEN <<x>>
    ELSE IF x > s[1] THEN <<x>> \o s
    ELSE <<s[1]>> \o InsertSorted(Tail(s), x)
InsertSorted(s, x) ==
    IF s = <<>> THEN <<x>>
    ELSE IF x < s[1] THEN <<x>> \o s
    ELSE <<s[1]>> \o InsertSorted(Tail(s), x)

RECURSIVE SortAscending(_)
SortAscending(s) ==
    IF s = <<>> THEN <<>>
    ELSE InsertSorted(SortAscending(Tail(s)), s[1])

\* sorted[Math.floor(0.95 * sorted.length)], sorted being 0-based.
P95Alt(times) == times[((95 * Len(times)) \div 100) + 1]
P95(times) == SortAscending(times)[((95 * Len(times)) \div 100) + 1]

\* A row that counts the successful results only.
SummaryRowAlt(rs, n) ==
    LET times == TimesOf(rs, n)
        errors == ErrorsOf(rs, n)
    IN  [name |-> n,
         count |-> Len(times) - errors,
         errors |-> errors,
         avg |-> RoundRatio(SumSeq(times), Len(times), 1),
         max |-> MaxOf(times),
         min |-> MinOf(times),
         p95 |-> P95(times),
         successRate |-> RoundRatio(Len(times) - errors, Len(times), 100)]

SummaryRow(rs, n) ==
    LET times == TimesOf(rs, n)
        count == Len(times)
        errors == ErrorsOf(rs, n)
    IN  [name |-> n,
         count |-> count,
         errors |-> errors,
         avg |-> RoundRatio(SumSeq(times), count, 1),
         max |-> MaxOf(times),
         min |-> MinOf(times),
         p95 |-> P95(times),
         successRate |-> RoundRatio(count - errors, count, 100)]

GlobalStats(rs) ==
    LET total == Len(rs)
        totalErrors == SumSeq([i \in 1..Cardinality(SummaryKeys(rs)) |->
                                  ErrorsOf(rs, EntryOrder(rs)[i])])
    IN  [totalRequests |-> total,
         totalErrors |-> totalErrors,
         globalSuccessRate |-> RoundRatio(total - totalErrors, total, 100),
         globalAvgTime |->
             RoundRatio(SumSeq([i \in 1..Len(rs) |-> rs[i].duration]),
                        Len(rs), 1)]

ShowSummary(rs) ==
    [rows |-> [i \in 1..Cardinality(SummaryKeys(rs)) |->
                  SummaryRow(rs, EntryOrder(rs)[i])],
     global |-> GlobalStats(rs)]

\* Nothing printed yet.
NoSummary == [rows |-> <<>>,
              global |-> [totalRequests |-> 0, totalErrors |-> 0,
                          globalSuccessRate |-> Num(0),
                          globalAvgTime |-> Num(0)]]

(* --------------------------- runRequest -------------------------------- *)
\* An entry of req.header: h.key may be missing (undefined).
HeaderKeys == {"Accept", "X-Id"}
HeaderValues == {"v1", "v2"}
HeaderEntries == [keyed : {TRUE}, key : HeaderKeys, value : HeaderValues]
                   \cup [keyed : {FALSE}, key : {""}, value : HeaderValues]

\* The property name of the computed key [h.key]: undefined becomes the
\* string "undefined".
PropertyKey(h) == IF h.keyed THEN h.key ELSE "undefined"

\* (req.header || []).reduce((acc, h) => ({ ...acc, [h.key]: h.value }), {})
RECURSIVE ResolveHeaders(_)
ResolveHeaders(hs) ==
    IF hs = <<>> THEN <<>>
    ELSE LET acc == ResolveHeaders(SubSeq(hs, 1, Len(hs) - 1))
             h == hs[Len(hs)]
         IN  [k \in (DOMAIN acc) \cup {PropertyKey(h)} |->
                 IF k = PropertyKey(h) THEN h.value ELSE acc[k]]

(* ----------------------------- the run --------------------------------- *)
\* No function has been called on its own.
NoProbe == [op |-> "none", in |-> <<>>, out |-> <<>>]

Init ==
    /\ config \in Configs
    /\ readable \in BOOLEAN
    /\ collection \in (IF readable THEN Collections ELSE {<<>>})
    /\ config.users * config.repetitions * Len(collection) <= MaxRequests
    /\ phase = "Idle"
    /\ totalRequests = 0
    /\ results = <<>>
    /\ completedRequests = 0
    /\ pc = [u \in Users |-> "NotCreated"]
    /\ slot = [u \in Users |-> 0]
    /\ startedAt = [u \in Users |-> 0]
    /\ clock = 0
    /\ reports = <<>>
    /\ origin = <<>>
    /\ dispatched = [u \in Users |-> [k \in 0..(SlotsPerUser - 1) |-> 0]]
    /\ summary = NoSummary
    /\ aggregations = 0
    /\ errorReported = FALSE
    /\ exitCode = -1
    /\ probe = NoProbe

\* simulateLoad up to `await Promise.all(tasks)`: the collection is loaded,
\* totalRequests is computed and one timer per user is armed.
StartSimulation ==
    /\ phase = "Idle"
    /\ readable
    /\ phase' = "Running"
    /\ totalRequests' = TotalRequests(config, collection)
    /\ results' = <<>>
    /\ completedRequests' = 0
    /\ pc' = [u \in Users |-> "WaitingToStart"]
    /\ UNCHANGED <<config, collection, slot, startedAt, clock, reports,
                   origin, dispatched, summary, aggregations, readable,
                   errorReported, exitCode, probe>>

\* loadCollection throws (readFileSync or JSON.parse): simulateLoad rejects
\* before anything is started, main's catch prints the error and calls
\* waitForKey.
LoadFails ==
    /\ phase = "Idle"
    /\ ~readable
    /\ phase' = "Failed"
    /\ errorReported' = TRUE
    /\ UNCHANGED <<config, collection, totalRequests, results,
                   completedRequests, pc, slot, startedAt, clock, reports,
                   origin, dispatched, summary, aggregations, readable,
                   exitCode, probe>>

\* The process is running and its event loop still serves callbacks.
Alive == phase \in {"Running", "Completed"}

\* Time passes.  The clock is only followed as far as it is needed to expire
\* the last timer.
ClockCap == IF (config.users - 1) * config.delayMsBetweenUsers > MaxClock
            THEN (config.users - 1) * config.delayMsBetweenUsers
            ELSE MaxClock

Tick ==
    /\ Alive
    /\ clock < ClockCap
    /\ clock' = clock + 1
    /\ UNCHANGED <<config, collection, phase, totalRequests, results,
                   completedRequests, pc, slot, startedAt, reports, origin,
                   dispatched, summary, aggregations, readable,
                   errorReported, exitCode, probe>>

\* runRequest(item) throws a TypeError before it dispatches anything when
\* item.request is undefined (req.url is read from undefined).
RunRequestThrows(item) == ~item.hasRequest

\* User u enters iteration k of its loops (k = SlotsPerUser: the loops are
\* over and resolve() is called).  A throw inside the async timer callback
\* rejects the callback's own promise, which nobody handles: resolve() is
\* never called, and the runtime either terminates the process (the default
\* since Node 15) or only warns.
Continue(u, k) ==
    /\ slot' = [slot EXCEPT ![u] = k]
    /\ IF k = SlotsPerUser
       THEN /\ pc' = [pc EXCEPT ![u] = "Done"]
            /\ UNCHANGED <<startedAt, dispatched, phase, exitCode>>
       ELSE IF RunRequestThrows(ItemAt(k))
       THEN /\ pc' = [pc EXCEPT ![u] = "Aborted"]
            /\ \/ phase' = "Running" /\ UNCHANGED exitCode
               \/ phase' = "Crashed" /\ exitCode' = 1
            /\ UNCHANGED <<startedAt, dispatched>>
       ELSE /\ pc' = [pc EXCEPT ![u] = "Executing"]
            /\ startedAt' = [startedAt EXCEPT ![u] = clock]
            /\ dispatched' = [dispatched EXCEPT ![u][k] = @ + 1]
            /\ UNCHANGED <<phase, exitCode>>

\* The delay handed to setTimeout for user i.
StartDelayAlt(i) == 0
StartDelay(i) == i * config.delayMsBetweenUsers

\* A timer that fires again while its user is already running.
TimerFireAlt(u) ==
    /\ u \in Users
    /\ Alive
    /\ pc[u] \in {"WaitingToStart", "Executing"}
    /\ Continue(u, 0)
    /\ UNCHANGED <<config, collection, totalRequests, results,
                   completedRequests, clock, reports, origin, summary,
                   aggregations, readable, errorReported, probe>>

\* The timer of user u fires: timers fire in order of expiry, and timers
\* expiring together fire in the order they were armed.
TimerFire(u) ==
    /\ u \in Users
    /\ Alive
    /\ pc[u] = "WaitingToStart"
    /\ clock >= StartDelay(u)
    /\ \A v \in Users : v < u => pc[v] # "WaitingToStart"
    /\ Continue(u, 0)
    /\ UNCHANGED <<config, collection, totalRequests, results,
                   completedRequests, clock, reports, origin, summary,
                   aggregations, readable, errorReported, probe>>

\* success of a received response.
IsSuccessAlt(status) == status >= 200 /\ status <= 400
IsSuccess(status) == status >= 200 /\ status < 400

\* The RequestResult of runRequest: a response with its status, or the
\* catch branch (timeout after 10000 ms or any transport failure).
ResponseResult(item, status, duration) ==
    [name |-> item.name, status |-> status, duration |-> duration,
     success |-> IsSuccess(status)]

FailureResult(item, duration) ==
    [name |-> item.name, status |-> 0, duration |-> duration,
     success |-> FALSE]

\* completedRequests++
IncrementAlt(c) == IF c = 1 THEN c ELSE c + 1
Increment(c) == c + 1

\* updateProgress(): the percentage written for `completed` of `total`.
PercentageAlt(completed, total) == RoundRatio(total, completed, 100)
Percentage(completed, total) == RoundRatio(completed, total, 100)

\* The loops go on with the next item whatever the result was.
NextSlotAlt(k, result) == IF result.status = 0 THEN k ELSE k + 1
NextSlot(k, result) == k + 1

\* The continuation of `await runRequest(item)` in user u: push the result,
\* count it, report progress, then go on with the next iteration.
Emit(u, result, from) ==
    /\ results' = Append(results, result)
    /\ origin' = Append(origin, from)
    /\ completedRequests' = Increment(completedRequests)
    /\ reports' = Append(reports,
                    [completed |-> completedRequests',
                     percentage |-> Percentage(completedRequests',
                                               totalRequests),
                     total |-> totalRequests,
                     appended |-> Len(results')])
    /\ Continue(u, NextSlot(slot[u], result))

ResponseArrives(u) ==
    /\ u \in Users
    /\ Alive
    /\ pc[u] = "Executing"
    /\ \E status \in StatusCodes :
          Emit(u, ResponseResult(ItemAt(slot[u]), status,
                                 clock - startedAt[u]),
               [user |-> u, slot |-> slot[u], via |-> "response",
                received |-> status])
    /\ UNCHANGED <<config, collection, totalRequests, clock, summary,
                   aggregations, readable, errorReported, probe>>

RequestFails(u) ==
    /\ u \in Users
    /\ Alive
    /\ pc[u] = "Executing"
    /\ Emit(u, FailureResult(ItemAt(slot[u]), clock - startedAt[u]),
            [user |-> u, slot |-> slot[u], via |-> "catch", received |-> 0])
    /\ UNCHANGED <<config, collection, totalRequests, clock, summary,
                   aggregations, readable, errorReported, probe>>

\* Promise.all(tasks) is fulfilled when every task has called resolve().
AllTasksResolvedAlt == \E u \in Users : pc[u] = "Done"
AllTasksResolved == \A u \in Users : pc[u] = "Done"

\* The continuation of `await Promise.all(tasks)`: showSummary(results).
Aggregate ==
    /\ phase = "Running"
    /\ AllTasksResolved
    /\ summary' = ShowSummary(results)
    /\ aggregations' = aggregations + 1
    /\ phase' = "Completed"
    /\ UNCHANGED <<config, collection, totalRequests, results,
                   completedRequests, pc, slot, startedAt, clock, reports,
                   origin, dispatched, readable, errorReported, exitCode,
                   probe>>

\* No callback is pending any more although Promise.all has not settled (a
\* user threw and the runtime only warned): the event loop is empty and the
\* process ends by itself, without a report.
EventLoopDrains ==
    /\ phase = "Running"
    /\ \E u \in Users : pc[u] = "Aborted"
    /\ \A u \in Users : pc[u] \in {"Aborted", "Done"}
    /\ phase' = "Exited"
    /\ exitCode' = 0
    /\ UNCHANGED <<config, collection, totalRequests, results,
                   completedRequests, pc, slot, startedAt, clock, reports,
                   origin, dispatched, summary, aggregations, readable,
                   errorReported, probe>>

\* waitForKey: main calls it after simulateLoad returned and also after it
\* caught an error; the first key pressed runs process.exit(0).
KeyPressed ==
    /\ phase \in {"Completed", "Failed"}
    /\ phase' = "Exited"
    /\ exitCode' = 0
    /\ UNCHANGED <<config, collection, totalRequests, results,
                   completedRequests, pc, slot, startedAt, clock, reports,
                   origin, dispatched, summary, aggregations, readable,
                   errorReported, probe>>

Next ==
    \/ StartSimulation
    \/ LoadFails
    \/ Tick
    \/ \E u \in Users : TimerFire(u)
    \/ \E u \in Users : ResponseArrives(u)
    \/ \E u \in Users : RequestFails(u)
    \/ Aggregate
    \/ EventLoopDrains
    \/ KeyPressed

Spec == Init /\ [][Next]_vars

\* Timers fire, every dispatched request settles (a response, or the
\* 10000 ms timeout at the latest) and ready continuations run.
FairSpec ==
    /\ Spec
    /\ WF_vars(StartSimulation)
    /\ WF_vars(LoadFails)
    /\ WF_vars(EventLoopDrains)
    /\ WF_vars(Tick)
    /\ \A u \in 0..(MaxUsers - 1) : WF_vars(TimerFire(u))
    /\ \A u \in 0..(MaxUsers - 1) :
          WF_vars(ResponseArrives(u) \/ RequestFails(u))
    /\ WF_vars(Aggregate)

(* ------------------ the functions called on their own ------------------ *)
\* Everything but probe.
runVars == <<config, collection, phase, totalRequests, results,
             completedRequests, pc, slot, startedAt, clock, reports, origin,
             dispatched, summary, aggregations, readable, errorReported,
             exitCode>>

\* Results handed to showSummary.
ProbeNames == {"a", "b", "1", "2"}
ProbeDurations == {10, 25}
ProbeItems == [name : ProbeNames, hasRequest : {TRUE}]
ProbeResults ==
    {ResponseResult(item, 200, 10) : item \in ProbeItems}
      \cup {FailureResult(item, 25) : item \in ProbeItems}
ProbeResultSeqs == UNION {[1..n -> ProbeResults] : n \in 0..MaxResults}

\* Groups of durations: short ones, and 1..n.
ProbeTimes ==
    UNION {[1..n -> ProbeDurations \cup {40}] : n \in 1..MaxResults}
      \cup {[i \in 1..n |-> i] : n \in 1..MaxRamp}

HeaderLists == UNION {[1..n -> HeaderEntries] : n \in 0..MaxHeaders}

PureInit ==
    /\ Init
    /\ config = [users |-> 1, repetitions |-> 1, delayMsBetweenUsers |-> 0]
    /\ readable
    /\ collection = <<>>

CallUpdateProgress ==
    /\ probe = NoProbe
    /\ \E t \in 1..MaxTotal : \E c \in 1..t :
          probe' = [op |-> "updateProgress", in |-> <<c, t>>,
                    out |-> Percentage(c, t)]
    /\ UNCHANGED runVars

CallShowSummary ==
    /\ probe = NoProbe
    /\ \E rs \in ProbeResultSeqs :
          probe' = [op |-> "showSummary", in |-> rs, out |-> ShowSummary(rs)]
    /\ UNCHANGED runVars

CallP95 ==
    /\ probe = NoProbe
    /\ \E times \in ProbeTimes :
          probe' = [op |-> "p95", in |-> times, out |-> P95(times)]
    /\ UNCHANGED runVars

CallResolveHeaders ==
    /\ probe = NoProbe
    /\ \E hs \in HeaderLists :
          probe' = [op |-> "headers", in |-> hs, out |-> ResolveHeaders(hs)]
    /\ UNCHANGED runVars

PureNext ==
    \/ CallUpdateProgress
    \/ CallShowSummary
    \/ CallP95
    \/ CallResolveHeaders

PureSpec == PureInit /\ [][PureNext]_vars

(* ============================ properties =============================== *)
\* Positions of results that user u produced.
EmittedBy(u) == {i \in 1..Len(origin) : origin[i].user = u}

AllWellFormed == \A i \in 1..Len(collection) : collection[i].hasRequest

\* C1: when simulateLoad reaches aggregation, the result collection holds
\* exactly users x repetitions x T results, and that number is the
\* totalRequests computed before any user was started.
C1_ResultCount ==
    aggregations > 0 =>
        /\ Len(results) =
               config.users * config.repetitions * Len(collection)
        /\ Len(results) = totalRequests

C1_Witness ==
    /\ aggregations = 1
    /\ AllWellFormed
    /\ config.users = 2
    /\ Len(collection) = 2
    /\ Len(results) = 4
    /\ origin[1].user = 1
    /\ \E i, j \in 1..4 : results[i].status = 0 /\ results[j].success

\* C2: showSummary is called only after every user has finished every
\* iteration of its loops; no user is waiting or executing once aggregation
\* has started, and no result is appended after it.
C2_JoinBeforeAggregate ==
    /\ [](aggregations > 0 =>
             \A u \in Users : pc[u] = "Done" /\ slot[u] = SlotsPerUser)
    /\ [][aggregations > 0 => results' = results]_vars

C2_Witness ==
    /\ aggregations = 1
    /\ config.users = 2
    /\ config.repetitions = 2
    /\ Len(results) = 4
    /\ \A u \in Users : pc[u] = "Done"

\* C3: within one user the requests run one after the other in collection
\* order: the k-th result a user emits is that of its iteration k, it
\* carries the name of the item of that iteration, and an iteration has
\* dispatched only when the results of all earlier ones have been emitted.
C3_SequentialInOrder ==
    \A u \in Users :
        /\ \A i \in EmittedBy(u) :
              /\ origin[i].slot =
                     Cardinality({j \in EmittedBy(u) : j < i})
              /\ results[i].name =
                     collection[(origin[i].slot % Len(collection)) + 1].name
        /\ \A k \in 0..(SlotsPerUser - 1) :
              dispatched[u][k] > 0 =>
                  \A k2 \in 0..(k - 1) :
                      \E i \in EmittedBy(u) : origin[i].slot = k2

\* Two users, their results interleaved, the later user emitting first.
C3_Witness ==
    /\ config.users = 2
    /\ Len(collection) = 2
    /\ collection[1].name # collection[2].name
    /\ Len(origin) = 4
    /\ origin[1].user = 1 /\ origin[2].user = 0
    /\ origin[3].user = 1 /\ origin[4].user = 0

\* C4: no lost update: the counter equals the length of the result
\* collection in every state, every progress report shows the count of the
\* results appended so far, and no request is appended twice.
C4_NoLostUpdate ==
    /\ completedRequests = Len(results)
    /\ Len(origin) = Len(results)
    /\ Len(reports) = Len(results)
    /\ \A i \in 1..Len(reports) :
          reports[i].completed = i /\ reports[i].appended = i
    /\ \A i, j \in 1..Len(origin) :
          (origin[i].user = origin[j].user /\ origin[i].slot = origin[j].slot)
              => i = j

C4_Witness ==
    /\ config.users = 2
    /\ \A u \in Users : pc[u] = "Executing" /\ slot[u] = 1
    /\ completedRequests = 2

\* C5: with fair timers and every dispatched request settling, every run
\* eventually aggregates exactly once and completes, every user being Done.
C5_EventuallyCompleted ==
    <>(phase = "Completed" /\ aggregations = 1
         /\ \A u \in Users : pc[u] = "Done")

\* C6: no retry: every iteration of every user dispatches at most once; an
\* iteration the user has finished has dispatched exactly once and has
\* exactly one result, also when that result is a failure; an iteration not
\* yet finished has none.
C6_NoRetry ==
    \A u \in Users : \A k \in 0..(SlotsPerUser - 1) :
        /\ dispatched[u][k] <= 1
        /\ Cardinality({i \in EmittedBy(u) : origin[i].slot = k})
              = (IF k < slot[u] THEN 1 ELSE 0)
        /\ k < slot[u] => dispatched[u][k] = 1
        /\ (k = slot[u] /\ pc[u] = "Executing") => dispatched[u][k] = 1
        /\ k > slot[u] => dispatched[u][k] = 0

\* A request of user 0 failed, user 0 went on with its next item, and
\* user 1 is running too.
C6_Witness ==
    /\ config.users = 2
    /\ Len(results) >= 1
    /\ origin[1].user = 0 /\ origin[1].via = "catch"
    /\ pc[0] = "Executing" /\ slot[0] = 1 /\ dispatched[0][1] = 1
    /\ pc[1] = "Executing"

\* C7: every result has success = (200 <= status < 400); a result of the
\* catch branch has status 0 and success false; a result of a response
\* carries the status of the response.
C7_SuccessClassification ==
    \A i \in 1..Len(results) :
        /\ results[i].success =
               (results[i].status >= 200 /\ results[i].status < 400)
        /\ origin[i].via = "catch" =>
               (results[i].status = 0 /\ ~results[i].success)
        /\ origin[i].via = "response" =>
               results[i].status = origin[i].received

C7_Witness ==
    /\ Len(results) = 4
    /\ \E i, j, k, l \in 1..4 :
          /\ origin[i].via = "catch"
          /\ results[j].status = 400
          /\ results[k].status = 200 /\ results[k].success
          /\ results[l].status = 500

\* C8: with an empty collection the run completes without dispatching,
\* without a progress report, with zero rows, and the global success rate
\* and average are not the result of a division by zero.
C8_DegenerateGuarded ==
    (aggregations > 0 /\ totalRequests = 0) =>
        /\ results = <<>> /\ reports = <<>>
        /\ summary.rows = <<>>
        /\ summary.global.globalSuccessRate.kind # "NaN"
        /\ summary.global.globalAvgTime.kind # "NaN"

\* C9: an entry without `request` is skipped and aborts no user.
C9_InvalidEntrySkipped ==
    \A u \in Users : pc[u] # "Aborted"

\* C10: the reported (completed, percentage) pairs never decrease, each
\* report shows the count at the moment its result was appended, every
\* percentage is within 0..100, and the last report of a finished run
\* shows completed = totalRequests and 100%.
C10_ProgressMonotonic ==
    /\ \A i \in 1..Len(reports) :
          /\ reports[i].percentage.kind = "num"
          /\ reports[i].percentage.val \in 0..100
          /\ reports[i].completed = reports[i].appended
          /\ \A j \in 1..Len(reports) :
                i < j => /\ reports[i].completed <= reports[j].completed
                         /\ reports[i].percentage.val
                               <= reports[j].percentage.val
    /\ (aggregations > 0 /\ totalRequests > 0) =>
          /\ reports[Len(reports)].completed = totalRequests
          /\ reports[Len(reports)].percentage = Num(100)

C10_Witness ==
    /\ aggregations = 1
    /\ config.users = 2
    /\ Len(reports) = 4
    /\ reports[1].percentage = Num(25)
    /\ reports[4].percentage = Num(100)
    /\ origin[1].user # origin[2].user

\* C16: the process exits with status 0 after the report was shown, and
\* with a non-zero status after a fatal failure was reported.
C16_ExitStatus ==
    phase = "Exited" =>
        /\ (aggregations = 1 /\ ~errorReported) => exitCode = 0
        /\ errorReported => exitCode # 0

\* Requests of user u that were dispatched and have not settled.
InFlight(u) ==
    SumSeq([k \in 1..SlotsPerUser |-> dispatched[u][k - 1]])
        - Cardinality(EmittedBy(u))

\* C17: user i has dispatched nothing before i x delayMsBetweenUsers ms have
\* passed, and the request of a started user can settle whatever the state
\* of the other users, not yet started ones included.
C17_StaggeredStart ==
    \A u \in Users :
        /\ InFlight(u) + Cardinality(EmittedBy(u)) > 0 =>
               clock >= u * config.delayMsBetweenUsers
        /\ pc[u] = "Executing" =>
               startedAt[u] >= u * config.delayMsBetweenUsers
        /\ (pc[u] = "Executing" /\ Alive) => ENABLED ResponseArrives(u)

\* Without a delay every user has a request in flight at the same time.
C17_Witness ==
    /\ config.users = 2
    /\ config.delayMsBetweenUsers = 0
    /\ clock = 0
    /\ results = <<>>
    /\ \A u \in Users : pc[u] = "Executing" /\ InFlight(u) = 1

\* C19: every user has at most one request in flight, a user has one
\* exactly while it is Executing (none while waiting, done or aborted), and
\* the requests in flight never outnumber the users.
C19_OneInFlight ==
    /\ \A u \in Users :
          /\ InFlight(u) \in {0, 1}
          /\ InFlight(u) = 1 <=> pc[u] = "Executing"
    /\ SumSeq([i \in 1..config.users |-> InFlight(i - 1)]) <= config.users

C19_Witness ==
    /\ config.users = 2
    /\ pc[0] = "Executing" /\ slot[0] = 1
    /\ pc[1] = "Executing" /\ slot[1] = 0
    /\ InFlight(0) + InFlight(1) = 2

\* Templates of the collection named n.
TemplatesNamed(n) == {j \in 1..Len(collection) : collection[j].name = n}

\* C20: after a completed run there is exactly one row per name of the
\* collection and its count is users x repetitions x the number of
\* templates with that name.
C20_CountPerName ==
    aggregations > 0 =>
        /\ \A i \in 1..Len(summary.rows) :
              /\ summary.rows[i].count =
                     config.users * config.repetitions
                         * Cardinality(TemplatesNamed(summary.rows[i].name))
              /\ \A j \in 1..Len(summary.rows) :
                    summary.rows[i].name = summary.rows[j].name => i = j
        /\ \A j \in 1..Len(collection) :
              \E i \in 1..Len(summary.rows) :
                  summary.rows[i].name = collection[j].name

\* Two templates sharing a name are merged into one row.
C20_Witness ==
    /\ aggregations = 1
    /\ config.users = 2
    /\ Len(collection) = 2
    /\ collection[1].name = collection[2].name
    /\ Len(summary.rows) = 1
    /\ summary.rows[1].count = 4

(* ---------------- properties of the functions on their own ------------- *)
\* C11 as stated: the percentage is floor(c / totalRequests x 100).
C11_PercentageIsFloor ==
    probe.op = "updateProgress" =>
        probe.out = Num((100 * probe.in[1]) \div probe.in[2])

\* C11 as amended: the percentage is the integer nearest to
\* c / totalRequests x 100 (at most 1/2 away from it), not its floor.
C11_PercentageIsNearest ==
    probe.op = "updateProgress" =>
        LET c == probe.in[1]
            t == probe.in[2]
            d == probe.out.val * t - 100 * c
        IN  /\ probe.out.kind = "num"
            /\ 2 * d <= t
            /\ 2 * (0 - d) <= t

C11_Witness ==
    /\ probe.op = "updateProgress"
    /\ probe.in = <<2, 3>>
    /\ probe.out = Num(67)

\* The rows of a summary, without their order.
RowSet(sm) == {sm.rows[i] : i \in 1..Len(sm.rows)}

\* C12: showSummary computes the same rows (count, errors, avg, max, min,
\* p95, success rate per name) and the same global statistics for every
\* permutation of a result sequence; only the order of the rows may differ.
C12_OrderInsensitive ==
    probe.op = "showSummary" =>
        \A p \in Permutations(1..Len(probe.in)) :
            LET permuted == [i \in 1..Len(probe.in) |-> probe.in[p[i]]]
            IN  /\ RowSet(ShowSummary(permuted)) = RowSet(probe.out)
                /\ ShowSummary(permuted).global = probe.out.global

C12_Witness ==
    /\ probe.op = "showSummary"
    /\ Len(probe.in) = 3
    /\ probe.in[1].name = "b" /\ probe.in[2].name = "a"
    /\ probe.in[3].name = "b"
    /\ probe.in[1].duration = 25 /\ probe.in[3].duration = 10
    /\ ~probe.in[1].success /\ probe.in[3].success
    /\ probe.out.rows[1].name = "b" /\ probe.out.rows[1].p95 = 25

\* C13: p95 of N >= 1 durations is the element at 0-based index
\* floor(0.95 x N) of the ascending order; the index is within 0..N-1, so
\* p95 is one of the durations (the single one for N = 1, 20 for 1..20).
C13_P95NearestRank ==
    probe.op = "p95" =>
        LET N == Len(probe.in)
            idx == (95 * N) \div 100
            below == {i \in 1..N : probe.in[i] < probe.out}
            upTo == {i \in 1..N : probe.in[i] <= probe.out}
        IN  /\ idx \in 0..(N - 1)
            /\ \E i \in 1..N : probe.in[i] = probe.out
            /\ Cardinality(below) <= idx
            /\ idx < Cardinality(upTo)
            /\ N = 1 => probe.out = probe.in[1]
            /\ probe.in = [i \in 1..20 |-> i] => probe.out = 20

C13_Witness ==
    /\ probe.op = "p95"
    /\ probe.in = [i \in 1..20 |-> i]
    /\ probe.out = 20

\* C14: in every row count = errors + the successful results of that name
\* and successRate = round((count - errors) / count x 100); the global
\* totals are the sums of the counts and of the errors of the rows.
C14_CountsAndRates ==
    probe.op = "showSummary" =>
        LET rows == probe.out.rows
        IN  /\ \A i \in 1..Len(rows) :
                  LET ok == {j \in 1..Len(probe.in) :
                                /\ probe.in[j].name = rows[i].name
                                /\ probe.in[j].success}
                      good == rows[i].count - rows[i].errors
                      rate == rows[i].successRate
                  IN  /\ rows[i].count = rows[i].errors + Cardinality(ok)
                      /\ rate.kind = "num"
                      /\ 200 * good - rows[i].count
                            < 2 * rate.val * rows[i].count
                      /\ 2 * rate.val * rows[i].count
                            <= 200 * good + rows[i].count
            /\ probe.out.global.totalRequests =
                  SumSeq([i \in 1..Len(rows) |-> rows[i].count])
            /\ probe.out.global.totalErrors =
                  SumSeq([i \in 1..Len(rows) |-> rows[i].errors])

C14_Witness ==
    /\ probe.op = "showSummary"
    /\ Len(probe.in) = 3
    /\ Len(probe.out.rows) = 2
    /\ probe.out.rows[1].count = 2 /\ probe.out.rows[1].errors = 1
    /\ probe.out.rows[1].successRate = Num(50)
    /\ probe.out.global.totalErrors = 2
    /\ probe.out.global.globalSuccessRate = Num(33)

\* C15: the rows are ordered by the first occurrence of their names in the
\* result sequence.
C15_RowsByFirstOccurrence ==
    probe.op = "showSummary" =>
        \A i, j \in 1..Len(probe.out.rows) :
            i < j => FirstIndex(probe.in, probe.out.rows[i].name)
                       < FirstIndex(probe.in, probe.out.rows[j].name)

\* C18: the resolved headers have exactly the keys of the keyed entries,
\* each with the value of the last entry of that key; an entry without a key
\* adds nothing.
C18_HeaderResolution ==
    probe.op = "headers" =>
        LET keyed == {i \in 1..Len(probe.in) : probe.in[i].keyed}
        IN  /\ DOMAIN probe.out = {probe.in[i].key : i \in keyed}
            /\ \A i \in keyed :
                  (\A j \in keyed : probe.in[j].key = probe.in[i].key
                                        => j <= i)
                      => probe.out[probe.in[i].key] = probe.in[i].value

====
